---- MODULE Spec2Model ----
(***************************************************************************)
(* Telegram Web photo uploader (content_script.js): the message listener,  *)
(* the upload orchestration (uploadPhoto, uploadViaDragAndDrop,            *)
(* clickSendButton) and the wait primitives it suspends on.                *)
(*                                                                         *)
(* The program state is one record per received request (run).  The        *)
(* document is not owned by the program: every synchronous segment of code *)
(* reads a snapshot of it, drawn as an input of the action that models the *)
(* segment.  Time passes only by timers becoming due.                      *)
(*                                                                         *)
(* wait is one call of waitUntil taken alone, with its timeout, its        *)
(* interval and its predicate as inputs.                                   *)
(*                                                                         *)
(* popup is the extension popup (popup.js, TelegramPhotoSender): its       *)
(* selection, its send button and the handleSend calls in flight.          *)
(***************************************************************************)
EXTENDS Integers, Sequences, FiniteSets, TLC

VARIABLES run, wait, popup

vars == <<run, wait, popup>>

(***************************************************************************)
(* Configuration (TelegramUploader.config) and literals of the code.       *)
(***************************************************************************)
MaxWaitDropTarget == 3000
MaxWaitPreview == 5000
MaxWaitSendButton == 5000
MaxWaitClickResponse == 2000
CheckInterval == 100
DragOverDelay == 50
DragOverCount == 3

DropTargetSelector == ".DropTarget"
PreviewModalSelector == ".modal, [role=\"dialog\"]"

\* findDropZone's candidates, in the order of its selectors array.
DropZoneSelectors ==
  <<".composer-wrapper", ".input-message-container", ".middle-column", ".input-message-input">>

(***************************************************************************)
(* Bounds of the model.                                                    *)
(***************************************************************************)
\* Longest list of button elements a document snapshot holds.
MaxButtons == 2
\* Durations (Date.now() - startTime of uploadPhoto) are recorded up to this.
MaxDuration == 200
\* Longest timeout and longest interval of a waitUntil call taken alone,
\* in units of the clock.
MaxTimeout == 5
MaxInterval == 3

Min(a, b) == IF a <= b THEN a ELSE b

(***************************************************************************)
(* Document snapshots: what the selectors and properties read by the code  *)
(* evaluate to.                                                            *)
(***************************************************************************)
\* ns: the element's namespace.  An HTMLElement has offsetParent, a string
\* className, focus() and style; an SVGElement has className an
\* SVGAnimatedString (no includes) and no offsetParent; any other Element
\* has a string className, no offsetParent, no focus() and no style.
ButtonPalette ==
  { [ns |-> "html",  vis |-> TRUE,  text |-> "Send",    primary |-> TRUE,  generic |-> FALSE],
    [ns |-> "html",  vis |-> TRUE,  text |-> " send ",  primary |-> FALSE, generic |-> FALSE],
    [ns |-> "html",  vis |-> TRUE,  text |-> "SEND",    primary |-> FALSE, generic |-> TRUE],
    [ns |-> "html",  vis |-> FALSE, text |-> "Send",    primary |-> TRUE,  generic |-> TRUE],
    [ns |-> "html",  vis |-> TRUE,  text |-> "Cancel",  primary |-> TRUE,  generic |-> TRUE],
    [ns |-> "svg",   vis |-> FALSE, text |-> "Send",    primary |-> FALSE, generic |-> FALSE],
    [ns |-> "other", vis |-> FALSE, text |-> "Send",    primary |-> TRUE,  generic |-> FALSE] }

ButtonLists == UNION { [1..n -> ButtonPalette] : n \in 0..MaxButtons }

\* document.querySelector(previewModal): no match, a displayed HTML element,
\* an HTML element with style.display = 'none', an element without style.
Modals == {"none", "shown", "hidden", "foreign"}

\* The sets of drop-zone selectors that match some element.
DropZoneSets ==
  SUBSET {DropZoneSelectors[i] : i \in 1..Len(DropZoneSelectors)}

\* Requests: request.action and the shape of request.data.
Actions == {"uploadPhoto", "ping", "foo", "bar"}
\* data undefined; data without arrayBuffer; arrayBuffer a negative length
\* (new Uint8Array throws RangeError); arrayBuffer a list of bytes.
DataKinds == {"undefined", "noArrayBuffer", "negativeLength", "bytes"}

\* btn.textContent.trim().toLowerCase()
TrimLower(text) ==
  CASE text = "Send" -> "send"
    [] text = " send " -> "send"
    [] text = "SEND" -> "send"
    [] text = "Cancel" -> "cancel"
    [] OTHER -> text

(***************************************************************************)
(* Error messages, as sequences of their parts.                            *)
(***************************************************************************)
MsgInvalidPage == <<"Not on a", "valid", "Telegram chat page. Please open a chat first.">>
MsgInvalidData == <<"Invalid data: arrayBuffer is required">>
MsgConversion == <<"Failed to convert ArrayBuffer to File:", "Invalid typed array length: -1">>
MsgNoDropZone == <<"No drop zone found. Make sure you have a chat open.">>
MsgElementNotFound(selector, timeout) ==
  <<"Element not found:", selector, "(", "timeout", "after", ToString(timeout), "ms)">>
MsgWaitTimeout(timeout) ==
  <<"Timeout", "waiting for condition after", ToString(timeout), "ms">>
MsgNotFoundDespite == <<"Send button not found despite passing waitUntil check">>
MsgClassNameTypeError == <<"TypeError:", "btn.className.includes is not a function">>
MsgStyleTypeError == <<"TypeError:", "Cannot read properties of undefined (reading 'display')">>
MsgFocusTypeError == <<"TypeError:", "element.focus is not a function">>
MsgClickFailed(msg) == <<"Failed to click send:">> \o msg
MsgUnknownAction(action) == <<"Unknown action:", action>>

Contains(msg, part) == \E i \in 1..Len(msg) : msg[i] = part

(***************************************************************************)
(* Responses handed to sendResponse.  fields is the set of keys the object *)
(* literal carries.                                                        *)
(***************************************************************************)
UploadSuccess(duration) ==
  [success |-> TRUE, fields |-> {"success", "message", "duration"},
   error |-> <<>>, duration |-> duration]

UploadFailure(msg, duration) ==
  [success |-> FALSE, fields |-> {"success", "error", "duration"},
   error |-> msg, duration |-> duration]

InvalidPageResponse ==
  [success |-> FALSE, fields |-> {"success", "error"}, error |-> MsgInvalidPage, duration |-> 0]

PingResponse ==
  [success |-> TRUE, fields |-> {"success", "message"}, error |-> <<>>, duration |-> 0]

UnknownActionResponse(action) ==
  [success |-> FALSE, fields |-> {"success", "error"},
   error |-> MsgUnknownAction(action), duration |-> 0]

(***************************************************************************)
(* A run: one request delivered to the listener and the async call chain   *)
(* it starts.                                                              *)
(*   pc       where the chain is suspended                                 *)
(*   action, data, host, chat   the request and what isValidTelegramPage   *)
(*            read when it arrived                                         *)
(*   armed, timer   the timer the chain waits on and the time until due    *)
(*   elapsed  Date.now() - startTime of the pending waitUntil              *)
(*   age      Date.now() - startTime of uploadPhoto                        *)
(*   zone     the dropZone variable of uploadViaDragAndDrop                *)
(*   present  the drop-zone selectors that matched when findDropZone ran,  *)
(*            held until the run next resumes                              *)
(*   overs    dragover events dispatched so far                            *)
(*   log      events dispatched and steps taken, in order                  *)
(*   answers  the arguments of the sendResponse calls, in order            *)
(*   observing, disconnects   per waitForElement call: MutationObserver    *)
(*            subscribed; number of disconnect() calls                     *)
(*   stale    waitForElement calls that returned with their safety timer   *)
(*            still pending                                                *)
(*   seen, located   the visibleButtons source list of the re-location,    *)
(*            held until performClick is called, and the index chosen      *)
(*   target   the element handed to performClick                           *)
(***************************************************************************)
Runs == {1, 2}
Waits == {"dropTarget", "preview"}

NoButton == [ns |-> "", vis |-> FALSE, text |-> "", primary |-> FALSE, generic |-> FALSE]

IdleRun ==
  [pc |-> "idle", action |-> "", data |-> "", host |-> FALSE, chat |-> FALSE, armed |-> FALSE, timer |-> 0,
   elapsed |-> 0, age |-> 0, zone |-> "", present |-> {}, overs |-> 0, log |-> <<>>, answers |-> <<>>,
   observing |-> {}, disconnects |-> [w \in Waits |-> 0], stale |-> {},
   seen |-> <<>>, located |-> 0, target |-> NoButton]

InFlight(s) == s.pc \notin {"idle", "done"}

Event(ev, on) == [ev |-> ev, on |-> on]
Step(s, what) == [s EXCEPT !.log = Append(@, Event(what, ""))]
Dispatch(s, ev, on) == [s EXCEPT !.log = Append(@, Event(ev, on))]

\* The run when a callback resumes it: the document read before is gone.
Resumed(s) == [s EXCEPT !.present = {}]

Arm(s, pc, delay) == [s EXCEPT !.pc = pc, !.armed = TRUE, !.timer = delay]

\* sendResponse(resp)
Respond(s, resp) ==
  [s EXCEPT !.pc = "done", !.armed = FALSE, !.timer = 0, !.elapsed = 0,
            !.answers = Append(@, resp)]

(***************************************************************************)
(* Locating elements.                                                      *)
(***************************************************************************)
\* btn.offsetParent !== null (offsetParent is undefined off HTMLElement)
Visible(b) == b.ns # "html" \/ b.vis

\* btn.className.includes(...) raises a TypeError on an SVGAnimatedString
ClassNameThrows(b) == b.ns = "svg"

IsSend(b) == TrimLower(b.text) = "send"

Threw == 0 - 1

\* Array.prototype.find: the least of the indices I, 0 when there is none.
First(I) == IF I = {} THEN 0 ELSE CHOOSE i \in I : \A j \in I : i <= j

\* btn.className.includes(marker)
HasMarker(b, marker) == IF marker = "primary" THEN b.primary ELSE b.generic

\* visibleButtons.find(btn => ... btn.className.includes(marker) ...): the
\* callback reads className of every button it visits, so it raises at the
\* first visible SVG button met before a match.
FindByClass(bs, marker) ==
  LET hit == First({i \in 1..Len(bs) :
                     /\ Visible(bs[i]) /\ ~ClassNameThrows(bs[i])
                     /\ IsSend(bs[i]) /\ HasMarker(bs[i], marker)})
      bad == First({i \in 1..Len(bs) : Visible(bs[i]) /\ ClassNameThrows(bs[i])})
  IN  IF bad # 0 /\ (hit = 0 \/ bad < hit) THEN Threw ELSE hit

FindPrimarySend(bs) == FindByClass(bs, "primary")

\* first fallback: text only
FindAnySend(bs) == First({i \in 1..Len(bs) : Visible(bs[i]) /\ IsSend(bs[i])})

\* second fallback: text and the 'Button' class
FindGenericSend(bs) == FindByClass(bs, "Button")

\* Variant: the text-only search comes first.
LocateSendButton_DocumentOrder(bs) ==
  LET any == FindAnySend(bs)
  IN  IF any # 0 THEN any ELSE FindPrimarySend(bs)

\* The re-location of clickSendButton: the index chosen, 0 when the three
\* searches find nothing, Threw when a search raises.
LocateSendButton(bs) ==
  LET first == FindPrimarySend(bs)
      second == IF first = 0 THEN FindAnySend(bs) ELSE first
  IN  IF second = 0 THEN FindGenericSend(bs) ELSE second

\* Variant: the predicate asks for the text only.
SendButtonAvailable_AnySend(bs) == IF FindAnySend(bs) # 0 THEN "true" ELSE "false"

\* The predicate clickSendButton passes to its first waitUntil.
SendButtonAvailable(bs) ==
  LET found == FindPrimarySend(bs)
  IN  IF found = Threw THEN "throw" ELSE IF found # 0 THEN "true" ELSE "false"

\* The predicate of the close wait: modal === null || modal.style.display === 'none'
PreviewClosed(modal) ==
  CASE modal = "none" -> "true"
    [] modal = "hidden" -> "true"
    [] modal = "shown" -> "false"
    [] OTHER -> "throw"

\* document.querySelector(selector) of waitForElement finds an element
ModalExists(modal) == modal # "none"

\* findDropZone: the first selector of the array that matches, "" when none
RECURSIVE FirstZone(_, _)
FirstZone(selectors, present) ==
  IF selectors = <<>> THEN ""
  ELSE IF Head(selectors) \in present THEN Head(selectors)
  ELSE FirstZone(Tail(selectors), present)

\* Variant: the candidates are tried from the last to the first.
findDropZone_LastFirst(present) ==
  FirstZone([i \in 1..Len(DropZoneSelectors) |->
               DropZoneSelectors[Len(DropZoneSelectors) + 1 - i]], present)

findDropZone(present) == FirstZone(DropZoneSelectors, present)

\* Variant: the chat marker is not looked for.
isValidTelegramPage_HostOnly(host, chat) == host

\* isValidTelegramPage
isValidTelegramPage(host, chat) == host /\ chat

(***************************************************************************)
(* waitUntil's check(): what one evaluation does, given the predicate's    *)
(* outcome and Date.now() - startTime.                                     *)
(***************************************************************************)
\* Variant: the timeout is exceeded only after more than timeout has passed.
check_StrictlyLater(outcome, elapsed, timeout) ==
  IF outcome = "throw" THEN "throw"
  ELSE IF outcome = "true" THEN "resolve"
  ELSE IF elapsed > timeout THEN "reject"
  ELSE "retry"

\* Variant: the timeout is looked at before the condition.
check_TimeoutFirst(outcome, elapsed, timeout) ==
  IF elapsed >= timeout THEN "reject"
  ELSE IF outcome = "throw" THEN "throw"
  ELSE IF outcome = "true" THEN "resolve"
  ELSE "retry"

check(outcome, elapsed, timeout) ==
  IF outcome = "throw" THEN "throw"
  ELSE IF outcome = "true" THEN "resolve"
  ELSE IF elapsed >= timeout THEN "reject"
  ELSE "retry"

(***************************************************************************)
(* One call waitUntil(condition, timeout, checkInterval) taken alone.      *)
(*   state    "none", "called", then the promise: "pending", "resolved",   *)
(*            "rejected"                                                   *)
(*   cond     the predicate: never true; true from a time on; false until  *)
(*            a time and raising from then on                              *)
(*   now      Date.now() - startTime at the last evaluation                *)
(*   timer    a setTimeout(check, checkInterval) is pending                *)
(*   polls    timers set so far                                            *)
(*   threw    the predicate raised                                         *)
(*   error    the reason of the rejection                                  *)
(* A timer's callback is called when the timer is due.                     *)
(***************************************************************************)
Conditions ==
  {[kind |-> "never", at |-> 0]} \cup
  {[kind |-> k, at |-> t] : k \in {"trueFrom", "throwsFrom"}, t \in 0..(MaxTimeout + MaxInterval)}

ConditionError == <<"Error:", "condition failed">>

\* condition() evaluated at time now
condition(c, now) ==
  IF c.kind = "never" \/ now < c.at THEN "false"
  ELSE IF c.kind = "trueFrom" THEN "true"
  ELSE "throw"

NoWait ==
  [state |-> "none", timeout |-> 0, interval |-> 0, cond |-> [kind |-> "never", at |-> 0],
   now |-> 0, timer |-> FALSE, polls |-> 0, threw |-> FALSE, error |-> <<>>]

WaitCalls ==
  { [NoWait EXCEPT !.state = "called", !.timeout = t, !.interval = i, !.cond = c] :
      t \in 1..MaxTimeout, i \in 1..MaxInterval, c \in Conditions }

\* The call w after one run of check(), made by the promise executor or by
\* a timer.  An error raised in the executor rejects the promise; raised in
\* a timer callback it settles nothing.
Checked(w, inTimer) ==
  LET c == check(condition(w.cond, w.now), w.now, w.timeout)
  IN  IF c = "resolve" THEN [w EXCEPT !.state = "resolved"]
      ELSE IF c = "reject"
        THEN [w EXCEPT !.state = "rejected", !.error = MsgWaitTimeout(w.timeout)]
      ELSE IF c = "retry" THEN [w EXCEPT !.state = "pending", !.timer = TRUE, !.polls = @ + 1]
      ELSE IF inTimer THEN [w EXCEPT !.threw = TRUE]
      ELSE [w EXCEPT !.threw = TRUE, !.state = "rejected", !.error = ConditionError]

(***************************************************************************)
(* The synchronous segments of the upload, last first.  Each takes the run *)
(* and the document snapshot the segment reads, and yields the run at its  *)
(* next suspension.                                                        *)
(***************************************************************************)
\* uploadPhoto's return statements; the listener's then() hands the result
\* to sendResponse.
ReturnSuccess(s) == Respond(Step(s, "return"), UploadSuccess(s.age))

ReturnFailure(s, msg) == Respond(Step(s, "return"), UploadFailure(msg, s.age))

\* Variant: the catch of uploadPhoto swallows the error.
Throw_Swallowed(s, what, msg) == ReturnSuccess(Step(s, what))

\* An error is thrown at the step named what and reaches uploadPhoto's catch.
Throw(s, what, msg) == ReturnFailure(Step(s, what), msg)

\* clickSendButton's catch wraps the error; uploadPhoto's catch returns it.
ClickFailed(s, what, msg) == Throw(s, what, MsgClickFailed(msg))

\* Variant: the close wait is started but not awaited.
StartCloseWait_NotAwaited(s, modal) == ReturnSuccess(Step(s, "closeWaitStart"))

\* clickSendButton from the close wait on: the executor of waitUntil runs
\* check() at once; a rejection is caught (lines 404-412).
StartCloseWait(s, modal) ==
  LET s1 == Step(s, "closeWaitStart")
      c == check(PreviewClosed(modal), 0, MaxWaitClickResponse)
  IN  IF c = "resolve" THEN ReturnSuccess(Step(s1, "closeWaitResolved"))
      ELSE IF c = "retry" THEN [Arm(s1, "waitClose", CheckInterval) EXCEPT !.elapsed = 0]
      ELSE ReturnSuccess(Step(s1, "closeWaitRejected"))

\* Variant: the key events come in the other order.
performClick_KeyupFirst(s, b) ==
  IF b.ns = "other"
    THEN Step(s, "activationThrew")
    ELSE Dispatch(Dispatch(Dispatch(s, "focus", "button"), "keyup", "button"),
                  "keydown", "button")

\* performClick: focus(), keydown, keyup inside one try; focus is missing
\* on an element that is neither HTML nor SVG.
performClick(s, b) ==
  IF b.ns = "other"
    THEN Step(s, "activationThrew")
    ELSE Dispatch(Dispatch(Dispatch(s, "focus", "button"), "keydown", "button"),
                  "keyup", "button")

\* clickSendButton after its first waitUntil resolved: the re-location
\* (lines 354-396).  The run is then at the call of performClick, in the
\* same synchronous segment.
LocateSendControl(s, bs) ==
  LET i == LocateSendButton(bs)
  IN  IF i = Threw THEN ClickFailed(s, "locateThrew", MsgClassNameTypeError)
      ELSE IF i = 0 THEN ClickFailed(s, "sendButtonNotFound", MsgNotFoundDespite)
      ELSE [Step(s, "located") EXCEPT !.pc = "click", !.armed = FALSE, !.timer = 0,
                                       !.elapsed = 0, !.seen = bs, !.located = i]

\* clickSendButton from performClick on (lines 398-412).
ClickAndWait(s, modal) ==
  StartCloseWait(performClick([s EXCEPT !.seen = <<>>, !.target = s.seen[s.located]],
                              s.seen[s.located]),
                 modal)

\* uploadPhoto resumed after uploadViaDragAndDrop: clickSendButton up to
\* its first suspension.  A predicate that raises inside the executor
\* rejects the promise.
StartSendWait(s, bs) ==
  LET s1 == Step(s, "sendWaitStart")
      c == check(SendButtonAvailable(bs), 0, MaxWaitSendButton)
  IN  IF c = "resolve" THEN [Step(s1, "sendWaitResolved") EXCEPT !.pc = "resumeSend"]
      ELSE IF c = "retry" THEN [Arm(s1, "waitSend", CheckInterval) EXCEPT !.elapsed = 0]
      ELSE ClickFailed(s1, "sendPredicateThrew", MsgClassNameTypeError)

\* waitForPreviewModal -> waitForElement(previewModal, preview)
StartPreviewWait(s, modal) ==
  IF ModalExists(modal)
    THEN [Step(s, "previewResolved") EXCEPT !.pc = "resumePreview"]
    ELSE [Arm(s, "waitPreview", MaxWaitPreview) EXCEPT !.observing = @ \cup {"preview"}]

\* Variant: dragleave is dispatched before drop.
Hover_LeaveBeforeDrop(s, modal) ==
  LET s1 == [Dispatch(s, "dragover", s.zone) EXCEPT !.overs = @ + 1]
  IN  IF s1.overs < DragOverCount
        THEN Arm(s1, "hover", DragOverDelay)
        ELSE StartPreviewWait(
               Dispatch(Dispatch([s1 EXCEPT !.armed = FALSE, !.timer = 0], "dragleave", s1.zone),
                        "drop", s1.zone),
               modal)

\* One pass of the dragover loop and what follows it (lines 247-291).
Hover(s, modal) ==
  LET s1 == [Dispatch(s, "dragover", s.zone) EXCEPT !.overs = @ + 1]
  IN  IF s1.overs < DragOverCount
        THEN Arm(s1, "hover", DragOverDelay)
        ELSE StartPreviewWait(
               Dispatch(Dispatch([s1 EXCEPT !.armed = FALSE, !.timer = 0], "drop", s1.zone),
                        "dragleave", s1.zone),
               modal)

\* uploadViaDragAndDrop up to its first suspension (lines 208-236).  With
\* the refined target already present waitForElement returns it at once
\* and the loop's first pass follows without reading the document.
uploadViaDragAndDrop(s, zones, dropTarget, modal) ==
  LET zone == findDropZone(zones)
      s1 == Dispatch([s EXCEPT !.zone = zone, !.present = zones], "dragenter", zone)
  IN  IF zone = "" THEN Throw(s, "noDropZone", MsgNoDropZone)
      ELSE IF dropTarget
        THEN Hover([Step(s1, "refinedFound") EXCEPT !.zone = DropTargetSelector], modal)
        ELSE [Arm(s1, "waitDropTarget", MaxWaitDropTarget)
                EXCEPT !.observing = @ \cup {"dropTarget"}]

\* uploadPhoto up to its first suspension (lines 422-449).
uploadPhoto(s, data, zones, dropTarget, modal) ==
  LET s1 == Step([s EXCEPT !.age = 0], "uploadStarted")
  IN  IF data \in {"undefined", "noArrayBuffer"} THEN Throw(s1, "invalidData", MsgInvalidData)
      ELSE IF data = "negativeLength" THEN Throw(s1, "conversionFailed", MsgConversion)
      ELSE uploadViaDragAndDrop(s1, zones, dropTarget, modal)

\* Variant: the page is validated before the action is looked at.
onMessage_PageFirst(s, action, data, host, chat, zones, dropTarget, modal) ==
  LET s1 == [s EXCEPT !.action = action, !.data = data, !.host = host, !.chat = chat]
  IN  IF ~isValidTelegramPage(host, chat) THEN Respond(s1, InvalidPageResponse)
      ELSE IF action = "uploadPhoto" THEN uploadPhoto(s1, data, zones, dropTarget, modal)
      ELSE IF action = "ping" THEN Respond(s1, PingResponse)
      ELSE Respond(s1, UnknownActionResponse(action))

\* The chrome.runtime.onMessage listener.
onMessage(s, action, data, host, chat, zones, dropTarget, modal) ==
  LET s1 == [s EXCEPT !.action = action, !.data = data, !.host = host, !.chat = chat]
  IN  IF action = "uploadPhoto"
        THEN IF ~isValidTelegramPage(host, chat)
               THEN Respond(s1, InvalidPageResponse)
               ELSE uploadPhoto(s1, data, zones, dropTarget, modal)
      ELSE IF action = "ping" THEN Respond(s1, PingResponse)
      ELSE Respond(s1, UnknownActionResponse(action))

(***************************************************************************)
(* Time.  A timer callback runs when its timer is the next one due; the    *)
(* time until then passes for every run.                                   *)
(***************************************************************************)
IsDue(r) ==
  /\ run[r].armed
  /\ \A q \in Runs : run[q].armed => run[r].timer <= run[q].timer

Polling(s) == s.armed /\ s.pc \in {"waitSend", "waitClose"}

Advance(s, d) ==
  [s EXCEPT !.timer = IF s.armed THEN @ - d ELSE @,
            !.elapsed = IF Polling(s) THEN @ + d ELSE @,
            !.age = IF InFlight(s) THEN Min(@ + d, MaxDuration) ELSE @]

\* The run r when its due timer's callback is called.
Due(r) == Advance(run[r], run[r].timer)

\* The callback of r's due timer left r as s; time passed for all.
Fire(r, s) ==
  /\ run' = [q \in Runs |-> IF q = r THEN s ELSE Advance(run[q], run[r].timer)]
  /\ UNCHANGED <<wait, popup>>

\* waitForElement's observer callback found the element: disconnect and
\* resolve; the safety timer stays pending.
Found(s, w) ==
  [s EXCEPT !.armed = FALSE, !.timer = 0, !.observing = @ \ {w},
            !.disconnects[w] = @ + 1, !.stale = @ \cup {w}]

\* waitForElement's safety timer fired while waiting: disconnect and reject.
TimedOut(s, w) ==
  [s EXCEPT !.armed = FALSE, !.timer = 0, !.observing = @ \ {w},
            !.disconnects[w] = @ + 1]

(***************************************************************************)
(* The callbacks that resume a suspended run.                              *)
(***************************************************************************)
\* A timer callback raised: the error leaves the callback, the promise of
\* the wait stays pending and no timer is set again.
Uncaught(s, what) == [Step(s, what) EXCEPT !.armed = FALSE, !.timer = 0]

\* The refined-target wait resolved: dropZone = dropTarget (line 238).
RefinedTargetFound(s) ==
  Hover([Step(Found(s, "dropTarget"), "refinedFound") EXCEPT !.zone = DropTargetSelector],
        "none")

\* Variant: the rejection of the refined-target wait is not caught.
RefinedTargetMissed_Fatal(s) ==
  Throw(TimedOut(s, "dropTarget"), "refinedTimeout",
        MsgElementNotFound(DropTargetSelector, MaxWaitDropTarget))

\* The refined-target wait rejected: caught at line 239, dropZone is kept.
RefinedTargetMissed(s) == Hover(Step(TimedOut(s, "dropTarget"), "refinedTimeout"), "none")

\* The preview wait resolved.
PreviewFound(s) ==
  [Step(Found(s, "preview"), "previewResolved") EXCEPT !.pc = "resumePreview"]

\* Variant: the rejection of the preview wait is caught and the run goes on.
PreviewMissed_Absorbed(s) ==
  [Step(TimedOut(s, "preview"), "previewTimeout") EXCEPT !.pc = "resumePreview"]

\* The preview wait rejected: uploadViaDragAndDrop rethrows (line 297).
PreviewMissed(s) ==
  Throw(TimedOut(s, "preview"), "previewTimeout",
        MsgElementNotFound(PreviewModalSelector, MaxWaitPreview))

\* check() of the send wait, called by its timer.
SendWaitTick(s, bs) ==
  LET c == check(SendButtonAvailable(bs), s.elapsed, MaxWaitSendButton)
  IN  IF c = "resolve"
        THEN LocateSendControl(Step(Step(s, "sendWaitTick"), "sendWaitResolved"), bs)
      ELSE IF c = "reject"
        THEN ClickFailed(s, "sendWaitTimeout", MsgWaitTimeout(MaxWaitSendButton))
      ELSE IF c = "retry" THEN Arm(s, "waitSend", CheckInterval)
      ELSE Uncaught(s, "sendPredicateThrewInTimer")

\* Variant: the timeout of the close wait is not caught by clickSendButton.
CloseWaitTick_TimeoutFatal(s, modal) ==
  LET c == check(PreviewClosed(modal), s.elapsed, MaxWaitClickResponse)
  IN  IF c = "resolve" THEN ReturnSuccess(Step(s, "closeWaitResolved"))
      ELSE IF c = "reject"
        THEN ClickFailed(s, "closeWaitTimeout", MsgWaitTimeout(MaxWaitClickResponse))
      ELSE IF c = "retry" THEN Arm(s, "waitClose", CheckInterval)
      ELSE Uncaught(s, "closePredicateThrewInTimer")

\* check() of the close wait, called by its timer.  The rejection by the
\* timeout is caught at line 410.
CloseWaitTick(s, modal) ==
  LET c == check(PreviewClosed(modal), s.elapsed, MaxWaitClickResponse)
  IN  IF c = "resolve" THEN ReturnSuccess(Step(s, "closeWaitResolved"))
      ELSE IF c = "reject"
        THEN ReturnSuccess(Step(Step(s, "closeWaitTimeout"), "closeWaitRejected"))
      ELSE IF c = "retry" THEN Arm(s, "waitClose", CheckInterval)
      ELSE Uncaught(s, "closePredicateThrewInTimer")

(***************************************************************************)
(* The popup.                                                              *)
(*   selectedFile  this.selectedFile is a file (not null)                  *)
(*   disabled      this.sendButton.disabled                                *)
(*   pc            per handleSend call, the await it is suspended at       *)
(*   clears        pending setTimeout(() => this.clearSelection(), 2000)   *)
(***************************************************************************)
Sends == {1, 2}

\* The popup after the constructor; the button's disabled attribute comes
\* from the page.
PopupStart(disabled) ==
  [selectedFile |-> FALSE, disabled |-> disabled, pc |-> [c \in Sends |-> "idle"], clears |-> 0]

\* handleSend's catch and finally: the button is enabled again.
SendFailed(p, c) == [p EXCEPT !.disabled = FALSE, !.pc[c] = "idle"]

\* handleSend's success branch: the selection is cleared 2000 ms later.
SendSucceeded(p, c) == [p EXCEPT !.pc[c] = "idle", !.clears = @ + 1]

\* handleSend resumes at the await named at and goes on to the next one,
\* or throws.
SendResumed(p, c, at, ok) ==
  IF ~ok THEN SendFailed(p, c)
  ELSE IF at = "query" THEN [p EXCEPT !.pc[c] = "inject"]
  ELSE IF at = "inject" THEN [p EXCEPT !.pc[c] = "sleep"]
  ELSE IF at = "sleep" THEN [p EXCEPT !.pc[c] = "ping"]
  ELSE IF at = "ping"
    THEN IF p.selectedFile THEN [p EXCEPT !.pc[c] = "read"] ELSE SendFailed(p, c)
  ELSE IF at = "read"
    THEN IF p.selectedFile THEN [p EXCEPT !.pc[c] = "upload"] ELSE SendFailed(p, c)
  ELSE SendSucceeded(p, c)

(***************************************************************************)
(* Actions.                                                                *)
(***************************************************************************)
\* A request is delivered to the listener.
Receive(r) ==
  /\ run[r].pc = "idle"
  /\ \A q \in Runs : q < r => run[q].pc # "idle"
  /\ \E action \in Actions, host \in BOOLEAN, chat \in BOOLEAN, zones \in DropZoneSets,
        dropTarget \in BOOLEAN :
       \E data \in IF action = "uploadPhoto" THEN DataKinds ELSE {""} :
         run' = [run EXCEPT ![r] =
                   onMessage(@, action, data, host, chat, zones, dropTarget, "none")]
  /\ UNCHANGED <<wait, popup>>

\* A mutation is reported to the observer of the refined-target wait and
\* the element is there.
DropTargetAppears(r) ==
  /\ run[r].pc = "waitDropTarget"
  /\ run' = [run EXCEPT ![r] = RefinedTargetFound(Resumed(@))]
  /\ UNCHANGED <<wait, popup>>

\* The refined-target wait times out: caught, the original zone is kept.
DropTargetTimeout(r) ==
  /\ run[r].pc = "waitDropTarget"
  /\ IsDue(r)
  /\ Fire(r, RefinedTargetMissed(Resumed(Due(r))))

\* The delay between two dragover events ends.
HoverTick(r) ==
  /\ run[r].pc = "hover"
  /\ IsDue(r)
  /\ \E modal \in Modals : Fire(r, Hover(Resumed(Due(r)), modal))

\* A mutation is reported to the observer of the preview wait and a modal
\* is there.
PreviewAppears(r) ==
  /\ run[r].pc = "waitPreview"
  /\ run' = [run EXCEPT ![r] = PreviewFound(@)]
  /\ UNCHANGED <<wait, popup>>

\* The preview wait times out: uploadViaDragAndDrop rethrows, uploadPhoto
\* returns the failure.
PreviewTimeout(r) ==
  /\ run[r].pc = "waitPreview"
  /\ IsDue(r)
  /\ Fire(r, PreviewMissed(Due(r)))

\* uploadPhoto resumes after uploadViaDragAndDrop and calls clickSendButton.
ResumePreview(r, lists) ==
  /\ run[r].pc = "resumePreview"
  /\ \E bs \in lists : run' = [run EXCEPT ![r] = StartSendWait(@, bs)]
  /\ UNCHANGED <<wait, popup>>

\* check() of the send wait, run from its timer.  A predicate that raises
\* here raises out of the timer callback: nothing settles the promise and
\* no further timer is set.
SendPoll(r, lists) ==
  /\ run[r].pc = "waitSend"
  /\ IsDue(r)
  /\ \E bs \in lists :
       Fire(r, SendWaitTick(Due(r), bs))

\* clickSendButton resumes after a send wait that resolved in its executor.
ResumeSend(r, lists) ==
  /\ run[r].pc = "resumeSend"
  /\ \E bs \in lists : run' = [run EXCEPT ![r] = LocateSendControl(@, bs)]
  /\ UNCHANGED <<wait, popup>>

\* The located control is activated and the close wait begins.
Click(r) ==
  /\ run[r].pc = "click"
  /\ \E modal \in Modals : run' = [run EXCEPT ![r] = ClickAndWait(@, modal)]
  /\ UNCHANGED <<wait, popup>>

\* check() of the close wait, run from its timer.
ClosePoll(r, modals) ==
  /\ run[r].pc = "waitClose"
  /\ IsDue(r)
  /\ \E modal \in modals :
       Fire(r, CloseWaitTick(Due(r), modal))

\* The safety timer of a waitForElement call that already resolved fires:
\* observer.disconnect() again, reject() of a settled promise.
StaleTimeout(r) ==
  /\ \E w \in run[r].stale :
       run' = [run EXCEPT ![r].stale = @ \ {w}, ![r].disconnects[w] = @ + 1]
  /\ UNCHANGED <<wait, popup>>

Init ==
  /\ run = [r \in Runs |-> IdleRun]
  /\ wait = NoWait
  /\ popup = PopupStart(TRUE)

Step1(r, lists, modals) ==
  \/ Receive(r)
  \/ DropTargetAppears(r)
  \/ DropTargetTimeout(r)
  \/ HoverTick(r)
  \/ PreviewAppears(r)
  \/ PreviewTimeout(r)
  \/ ResumePreview(r, lists)
  \/ SendPoll(r, lists)
  \/ ResumeSend(r, lists)
  \/ Click(r)
  \/ ClosePoll(r, modals)
  \/ StaleTimeout(r)

\* One request at a time reaches the listener.
Next == Step1(1, ButtonLists, Modals)

Spec == Init /\ [][Next]_vars

\* Timers fire and queued continuations run; requests and mutations of the
\* document are up to the environment.
Scheduled(r) ==
  \/ DropTargetTimeout(r)
  \/ HoverTick(r)
  \/ PreviewTimeout(r)
  \/ ResumePreview(r, ButtonLists)
  \/ SendPoll(r, ButtonLists)
  \/ ResumeSend(r, ButtonLists)
  \/ Click(r)
  \/ ClosePoll(r, Modals)
  \/ StaleTimeout(r)

FairSpec == Spec /\ WF_vars(Scheduled(1))

\* Two requests may be in flight together, on a page whose send button is
\* there once the preview is, and whose preview is gone one poll after the
\* activation at the latest.
PagePrimaryLists ==
  { <<[ns |-> "html", vis |-> TRUE, text |-> "Send", primary |-> TRUE, generic |-> FALSE]>> }

NextConc ==
  \E r \in Runs :
    \/ Receive(r)
    \/ DropTargetAppears(r)
    \/ DropTargetTimeout(r)
    \/ HoverTick(r)
    \/ PreviewAppears(r)
    \/ PreviewTimeout(r)
    \/ ResumePreview(r, PagePrimaryLists)
    \/ ResumeSend(r, PagePrimaryLists)
    \/ Click(r)
    \/ ClosePoll(r, {"none"})
    \/ StaleTimeout(r)

SpecConc == Init /\ [][NextConc]_vars

\* Pages without a visible primary "send" button: the send wait never
\* resolves, so the re-location and what follows it are never reached.
StepNoPrimary(r, lists) ==
  \/ Receive(r)
  \/ DropTargetAppears(r)
  \/ DropTargetTimeout(r)
  \/ HoverTick(r)
  \/ PreviewAppears(r)
  \/ PreviewTimeout(r)
  \/ ResumePreview(r, lists)
  \/ SendPoll(r, lists)
  \/ StaleTimeout(r)

\* querySelectorAll('button') on a page whose only visible "send" button
\* has the 'Button' class, and where no button has the 'primary' class.
GenericOnlyLists ==
  { bs \in ButtonLists :
      /\ \A i \in 1..Len(bs) : ~bs[i].primary /\ ~ClassNameThrows(bs[i])
      /\ Cardinality({i \in 1..Len(bs) : Visible(bs[i]) /\ IsSend(bs[i])}) = 1
      /\ \A i \in 1..Len(bs) : (Visible(bs[i]) /\ IsSend(bs[i])) => bs[i].generic }

NextGeneric == StepNoPrimary(1, GenericOnlyLists)

SpecGeneric == Init /\ [][NextGeneric]_vars

\* querySelectorAll('button') on a page without a visible button whose
\* text is "send".
NoSendLists ==
  { bs \in ButtonLists : \A i \in 1..Len(bs) : ~(Visible(bs[i]) /\ IsSend(bs[i])) }

NextNoSend == StepNoPrimary(1, NoSendLists)

SpecNoSend == Init /\ [][NextNoSend]_vars

\* waitUntil is called: the executor runs check() at once.
WaitUntilCall ==
  /\ wait.state = "called"
  /\ wait' = Checked(wait, FALSE)
  /\ UNCHANGED <<run, popup>>

\* The timer set by check() is due: check() runs again.
WaitUntilTick ==
  /\ wait.state = "pending" /\ wait.timer
  /\ wait' = Checked([wait EXCEPT !.now = @ + wait.interval, !.timer = FALSE], TRUE)
  /\ UNCHANGED <<run, popup>>

InitWait ==
  /\ run = [r \in Runs |-> IdleRun]
  /\ wait \in WaitCalls
  /\ popup = PopupStart(TRUE)

NextWait == WaitUntilCall \/ WaitUntilTick

SpecWait == InitWait /\ [][NextWait]_vars

\* The user picks an image file of an allowed size.
handleFileSelect ==
  /\ popup' = [popup EXCEPT !.selectedFile = TRUE, !.disabled = FALSE]
  /\ UNCHANGED <<run, wait>>

\* The remove-image control of the preview is used.
RemoveImage ==
  /\ popup.selectedFile
  /\ popup' = [popup EXCEPT !.selectedFile = FALSE, !.disabled = TRUE]
  /\ UNCHANGED <<run, wait>>

\* The timer set after a successful send calls clearSelection.
ClearTimer ==
  /\ popup.clears > 0
  /\ popup' = [popup EXCEPT !.selectedFile = FALSE, !.disabled = TRUE, !.clears = @ - 1]
  /\ UNCHANGED <<run, wait>>

\* The send button, enabled, is clicked: handleSend up to its first await.
handleSend(c) ==
  /\ ~popup.disabled
  /\ popup.selectedFile
  /\ popup.pc[c] = "idle"
  /\ \A b \in Sends : b < c => popup.pc[b] # "idle"
  /\ popup' = [popup EXCEPT !.disabled = TRUE, !.pc[c] = "query"]
  /\ UNCHANGED <<run, wait>>

\* An awaited step of handleSend completes, well or not: the tab query,
\* the script injection, the sleep, the ping, the file read, the upload.
SendStep(c) ==
  /\ popup.pc[c] # "idle"
  /\ \E ok \in (IF popup.pc[c] = "sleep" THEN {TRUE} ELSE BOOLEAN) :
       /\ (popup.pc[c] = "upload" /\ ok) => popup.clears < Cardinality(Sends)
       /\ popup' = SendResumed(popup, c, popup.pc[c], ok)
  /\ UNCHANGED <<run, wait>>

InitPopup ==
  /\ run = [r \in Runs |-> IdleRun]
  /\ wait = NoWait
  /\ \E disabled \in BOOLEAN : popup = PopupStart(disabled)

NextPopup ==
  \/ handleFileSelect
  \/ RemoveImage
  \/ ClearTimer
  \/ \E c \in Sends : handleSend(c) \/ SendStep(c)

SpecPopup == InitPopup /\ [][NextPopup]_vars

(***************************************************************************)
(* Reading a run's history.                                                *)
(***************************************************************************)
DragEvents == {"dragenter", "dragover", "drop", "dragleave"}
ActivationEvents == {"focus", "keydown", "keyup"}

\* The synthetic events of the run, in dispatch order.
Dispatched(s, kinds) == SelectSeq(s.log, LAMBDA e : e.ev \in kinds)
Names(events) == [i \in 1..Len(events) |-> events[i].ev]

Did(s, what) == \E i \in 1..Len(s.log) : s.log[i].ev = what
Before(s, first, then) ==
  \A i \in 1..Len(s.log) :
    s.log[i].ev = then => \E j \in 1..(i - 1) : s.log[j].ev = first

Answered(s) == Len(s.answers) > 0
Answer(s) == s.answers[1]

DragSequence == <<"dragenter", "dragover", "dragover", "dragover", "drop", "dragleave">>

IsPrefix(a, b) == Len(a) <= Len(b) /\ \A i \in 1..Len(a) : a[i] = b[i]

(***************************************************************************)
(* C1.  Every request delivered to the listener is answered: sendResponse  *)
(* is eventually called for it, and never more than once.                  *)
(* Under FairSpec this fails: a send-wait or close-wait predicate that     *)
(* raises in a timer callback leaves the run pending for ever.             *)
(***************************************************************************)
C1_EveryRequestAnsweredOnce ==
  /\ [](Len(run[1].answers) <= 1)
  /\ (run[1].pc # "idle") ~> (Len(run[1].answers) = 1)

(***************************************************************************)
(* C2.  uploadPhoto never rejects: the failure of a fatal step ends the    *)
(* run and comes back as a result with success = FALSE carrying the error  *)
(* message; a result with success = TRUE follows only failures that are    *)
(* absorbed.                                                               *)
(***************************************************************************)
\* The steps that throw to uploadPhoto's catch, and what they throw.
FatalSteps ==
  {"invalidData", "conversionFailed", "noDropZone", "previewTimeout", "sendWaitTimeout",
   "sendPredicateThrew", "locateThrew", "sendButtonNotFound"}

ThrownBy(what) ==
  CASE what = "invalidData" -> MsgInvalidData
    [] what = "conversionFailed" -> MsgConversion
    [] what = "noDropZone" -> MsgNoDropZone
    [] what = "previewTimeout" -> MsgElementNotFound(PreviewModalSelector, MaxWaitPreview)
    [] what = "sendWaitTimeout" -> MsgClickFailed(MsgWaitTimeout(MaxWaitSendButton))
    [] what = "sendPredicateThrew" -> MsgClickFailed(MsgClassNameTypeError)
    [] what = "locateThrew" -> MsgClickFailed(MsgClassNameTypeError)
    [] what = "sendButtonNotFound" -> MsgClickFailed(MsgNotFoundDespite)

\* The failures caught on the way: the two waits the claim names, and a
\* throw inside performClick.
AbsorbedWaits == {"refinedTimeout", "closeWaitRejected"}
AbsorbedSteps == AbsorbedWaits \cup {"activationThrew"}

EndsWith(s, what) ==
  /\ Len(s.log) >= 2
  /\ s.log[Len(s.log) - 1].ev = what
  /\ s.log[Len(s.log)].ev = "return"

FailuresReported(s, absorbed) ==
  Did(s, "uploadStarted") =>
    /\ \A f \in FatalSteps :
         Did(s, f) =>
           /\ s.pc = "done" /\ EndsWith(s, f)
           /\ Len(s.answers) = 1
           /\ ~Answer(s).success
           /\ "error" \in Answer(s).fields /\ Answer(s).error = ThrownBy(f)
    /\ Answered(s) =>
         /\ {"success", "duration"} \subseteq Answer(s).fields
         /\ ~Answer(s).success => \E f \in FatalSteps : Did(s, f)
         /\ Answer(s).success =>
              \A f \in FatalSteps \cup AbsorbedSteps : Did(s, f) => f \in absorbed

PastDrag == {"waitPreview", "resumePreview", "waitSend", "resumeSend", "click", "waitClose", "done"}

C3_DragSequenceExact ==
  \A r \in Runs :
    LET d == Names(Dispatched(run[r], DragEvents))
    IN  /\ IsPrefix(d, DragSequence)
        /\ (run[r].zone # "" /\ run[r].pc \in PastDrag) => d = DragSequence
        /\ run[r].zone = "" => d = <<>>

C3_Witness ==
  \E r \in Runs :
    /\ run[r].pc = "done" /\ Did(run[r], "refinedFound")
    /\ Names(Dispatched(run[r], DragEvents)) = DragSequence

(***************************************************************************)
(* C4.  The steps of a run are sequential: the send wait starts after the  *)
(* dragleave event and after the preview wait resolved, activation events  *)
(* come after the send wait resolved, and the result is returned after the *)
(* close wait ended.                                                       *)
(***************************************************************************)
CloseWaitEnded(s, i) ==
  \E j \in 1..(i - 1) : s.log[j].ev \in {"closeWaitResolved", "closeWaitRejected"}

C4_StepsSequential ==
  \A r \in Runs :
    LET s == run[r]
    IN  /\ Before(s, "dragleave", "sendWaitStart")
        /\ Before(s, "previewResolved", "sendWaitStart")
        /\ \A a \in ActivationEvents : Before(s, "sendWaitResolved", a)
        /\ \A a \in ActivationEvents : Before(s, a, "closeWaitStart") \/ Did(s, "activationThrew")
        /\ \A i \in 1..Len(s.log) :
             (s.log[i].ev = "return" /\ Did(s, "closeWaitStart")) => CloseWaitEnded(s, i)
        /\ (Answered(s) /\ Did(s, "closeWaitStart")) => Did(s, "return")
        /\ (Answered(s) /\ Answer(s).success /\ s.action = "uploadPhoto") =>
             Did(s, "closeWaitStart")

C4_Witness ==
  \E r \in Runs :
    Answered(run[r]) /\ Answer(run[r]).success /\ Did(run[r], "closeWaitRejected")

(***************************************************************************)
(* C5.  When the refined-target wait times out the run goes on: every drag *)
(* event is dispatched on the surface findDropZone returned, the whole     *)
(* sequence is dispatched, and the run does not fail with that timeout.    *)
(***************************************************************************)
C5_RefinedTimeoutNotFatal ==
  \A r \in Runs :
    LET s == run[r]
        d == Dispatched(s, DragEvents)
    IN  Did(s, "refinedTimeout") =>
          /\ s.zone \in {DropZoneSelectors[i] : i \in 1..Len(DropZoneSelectors)}
          /\ \A i \in 1..Len(d) : d[i].on = s.zone
          /\ Len(d) >= 2
          /\ s.pc \in PastDrag => Names(d) = DragSequence
          /\ Answered(s) =>
               Answer(s).error # MsgElementNotFound(DropTargetSelector, MaxWaitDropTarget)

C5_Witness ==
  \E r \in Runs :
    Did(run[r], "refinedTimeout") /\ Answered(run[r]) /\ Answer(run[r]).success

(***************************************************************************)
(* C6.  When the preview wait times out the run ends with success = FALSE  *)
(* and an error that tells of a timeout; the six drag events were          *)
(* dispatched and no activation event is.                                  *)
(***************************************************************************)
C6_NoPreviewFails ==
  \A r \in Runs :
    LET s == run[r]
    IN  Did(s, "previewTimeout") =>
          /\ s.pc = "done" /\ Len(s.answers) = 1
          /\ ~Answer(s).success
          /\ Contains(Answer(s).error, "timeout")
          /\ Names(Dispatched(s, DragEvents)) = DragSequence
          /\ Dispatched(s, ActivationEvents) = <<>>

C6_Witness == \E r \in Runs : Did(run[r], "previewTimeout") /\ Answered(run[r])

(***************************************************************************)
(* C7.  An uploadPhoto request on a page that fails the precondition       *)
(* (wrong host, or no chat marker) is answered at once with                *)
(* success = FALSE and an error containing "valid"; nothing is dispatched. *)
(***************************************************************************)
C7_InvalidPageRefused ==
  \A r \in Runs :
    LET s == run[r]
    IN  (s.action = "uploadPhoto" /\ ~(s.host /\ s.chat)) =>
          /\ s.pc = "done" /\ Len(s.answers) = 1
          /\ ~Answer(s).success
          /\ Contains(Answer(s).error, "valid")
          /\ s.log = <<>>

C7_Witness ==
  \E r \in Runs : run[r].action = "uploadPhoto" /\ run[r].host /\ ~run[r].chat /\ Answered(run[r])

(***************************************************************************)
(* C8.  Every answer to an uploadPhoto request carries a duration >= 0,    *)
(* and carries an error exactly when success is FALSE.                     *)
(* The answer to a request on an invalid page carries no duration.         *)
(***************************************************************************)
C8_ResultComplete ==
  \A r \in Runs :
    \A i \in 1..Len(run[r].answers) :
      LET a == run[r].answers[i]
      IN  run[r].action = "uploadPhoto" =>
            /\ "duration" \in a.fields /\ a.duration >= 0
            /\ ("error" \in a.fields) <=> ~a.success

(***************************************************************************)
(* C9.  At most one upload is in flight at a time: no two runs are both    *)
(* between their dragenter and their drop.                                 *)
(* Under SpecConc a second request starts its drag while the first is      *)
(* suspended in its own.                                                   *)
(***************************************************************************)
MidDrag(s) == s.pc \in {"waitDropTarget", "hover"}

C9_RunsNotInterleaved ==
  \A r, q \in Runs : (r # q /\ MidDrag(run[r])) => ~MidDrag(run[q])

(***************************************************************************)
(* C10.  When the buttons enumerated by the re-location hold a visible     *)
(* primary control with text "send", the control located is the first such *)
(* one in document order, whatever precedes it.                            *)
(***************************************************************************)
PrimarySendAt(bs) ==
  {i \in 1..Len(bs) : (bs[i].ns # "html" \/ bs[i].vis) /\ bs[i].primary
                        /\ bs[i].text \in {"Send", " send ", "SEND"}}

C10_FirstPrimaryLocated ==
  \A r \in Runs :
    (run[r].pc = "click" /\ PrimarySendAt(run[r].seen) # {}) =>
      /\ run[r].located \in PrimarySendAt(run[r].seen)
      /\ \A j \in PrimarySendAt(run[r].seen) : run[r].located <= j

C10_Witness ==
  \E r \in Runs :
    /\ run[r].pc = "click" /\ Len(run[r].seen) = 2 /\ run[r].located = 2
    /\ run[r].seen[1].vis /\ run[r].seen[1].ns = "html" /\ ~run[r].seen[1].primary
    /\ run[r].seen[1].text \in {"Send", " send ", "SEND"}

(***************************************************************************)
(* C11.  On a page whose only visible "send" button carries the 'Button'   *)
(* class and where nothing carries 'primary', a run that reaches the send  *)
(* wait locates that button, activates it and does not fail.               *)
(* Under SpecGeneric the send wait, whose predicate asks for 'primary',    *)
(* times out instead.                                                      *)
(***************************************************************************)
C11_GenericFallbackLocated ==
  \A r \in Runs :
    LET s == run[r]
    IN  /\ ~Did(s, "sendWaitTimeout")
        /\ (Did(s, "sendWaitStart") /\ Answered(s)) =>
              /\ Answer(s).success
              /\ Did(s, "located") /\ s.target.generic /\ IsSend(s.target)
              /\ Names(Dispatched(s, ActivationEvents)) = <<"focus", "keydown", "keyup">>

(***************************************************************************)
(* C12.  On a page without a visible "send" button a run that reaches the  *)
(* send wait ends with success = FALSE, by the not-found error that        *)
(* follows the listing of the visible buttons and by no other error, and   *)
(* without an activation event.                                            *)
(* Under SpecNoSend the run ends by the timeout of the send wait: the      *)
(* listing and the not-found error are never reached.                      *)
(***************************************************************************)
C12_NotFoundDiagnosed ==
  \A r \in Runs :
    LET s == run[r]
    IN  (Did(s, "sendWaitStart") /\ Answered(s)) =>
          /\ ~Answer(s).success
          /\ Dispatched(s, ActivationEvents) = <<>>
          /\ Did(s, "sendButtonNotFound")
          /\ Answer(s).error = MsgClickFailed(MsgNotFoundDespite)

(***************************************************************************)
(* C13.  When the close wait times out (the preview modal is still shown   *)
(* at every poll up to the close timeout) the run, whose activation was    *)
(* done before, is answered once with success = TRUE.                      *)
(***************************************************************************)
C13_CloseTimeoutKeepsSuccess ==
  \A r \in Runs :
    LET s == run[r]
    IN  Did(s, "closeWaitTimeout") =>
          /\ Did(s, "keyup") \/ Did(s, "activationThrew")
          /\ s.pc = "done" /\ Len(s.answers) = 1
          /\ Answer(s).success
          /\ Answer(s).fields = {"success", "message", "duration"}

C13_Witness ==
  \E r \in Runs :
    /\ Did(run[r], "closeWaitTimeout") /\ Did(run[r], "keyup")
    /\ Answered(run[r]) /\ Answer(run[r]).success

(***************************************************************************)
(* C14.  A request whose action is neither "uploadPhoto" nor "ping" is     *)
(* answered in the listener call itself, once, with success = FALSE and    *)
(* the error "Unknown action: " followed by the action; no upload starts   *)
(* and no event is dispatched, on a valid page as on an invalid one.       *)
(***************************************************************************)
C14_UnknownActionRefused ==
  \A r \in Runs :
    LET s == run[r]
    IN  (s.pc # "idle" /\ s.action \notin {"uploadPhoto", "ping"}) =>
          /\ s.pc = "done" /\ Len(s.answers) = 1
          /\ ~Answer(s).success
          /\ Answer(s).fields = {"success", "error"}
          /\ Answer(s).error = <<"Unknown action:", s.action>>
          /\ s.log = <<>>
          /\ s.observing = {} /\ s.stale = {} /\ ~s.armed

C14_Witness ==
  \E r \in Runs :
    /\ run[r].action = "bar" /\ ~run[r].host
    /\ Answered(run[r]) /\ Answer(run[r]).error = <<"Unknown action:", "bar">>

(***************************************************************************)
(* C15.  A waitForElement call that subscribed its MutationObserver calls  *)
(* disconnect() exactly once: not before it exits, once when it exits,     *)
(* never again.                                                            *)
(* A call that resolved by its observer leaves its safety timer pending,   *)
(* and the timer's callback calls disconnect() a second time.              *)
(***************************************************************************)
C15_DisconnectedOnce ==
  \A r \in Runs : \A w \in Waits :
    /\ w \in run[r].observing => run[r].disconnects[w] = 0
    /\ run[r].disconnects[w] <= 1

(***************************************************************************)
(* C19.  A wait that has exited leaves no timer pending: no safety timer   *)
(* of a returned waitForElement call, no poll timer of a returned          *)
(* waitUntil call.                                                         *)
(* The safety timer of a waitForElement call that resolved by its observer *)
(* is never cleared.                                                       *)
(***************************************************************************)
C19_NoTimerLeftPending ==
  \A r \in Runs :
    /\ run[r].stale = {}
    /\ run[r].pc \in {"resumePreview", "resumeSend", "click", "done"} => ~run[r].armed

(***************************************************************************)
(* C20.  The activation events of a run are focus, keydown, keyup, in that *)
(* order and once each, all on the located button.  When the activation    *)
(* raises, nothing leaves performClick: the close wait starts next and the *)
(* run is not answered with a failure.                                     *)
(***************************************************************************)
C20_ActivationOrdered ==
  \A r \in Runs :
    LET s == run[r]
        a == Dispatched(s, ActivationEvents)
    IN  /\ Names(a) \in {<<>>, <<"focus", "keydown", "keyup">>}
        /\ \A i \in 1..Len(a) : a[i].on = "button"
        /\ Did(s, "activationThrew") =>
              /\ a = <<>>
              /\ \E i \in 1..(Len(s.log) - 1) :
                    s.log[i].ev = "activationThrew" /\ s.log[i + 1].ev = "closeWaitStart"
              /\ Answered(s) => Answer(s).success

C20_Witness ==
  \E r \in Runs :
    /\ Did(run[r], "activationThrew") /\ Did(run[r], "closeWaitTimeout")
    /\ run[r].target.ns = "other"
    /\ Answered(run[r]) /\ Answer(run[r]).success

(***************************************************************************)
(* C16.  When the predicate of a waitUntil call raises, at the first       *)
(* evaluation or at a later one, the promise is rejected with that error   *)
(* at once and no timer is pending.                                        *)
(* Under SpecWait an error raised at an evaluation made by a timer leaves  *)
(* the promise pending.                                                    *)
(***************************************************************************)
C16_PredicateErrorRejects ==
  wait.threw => wait.state = "rejected" /\ wait.error = ConditionError /\ ~wait.timer

(***************************************************************************)
(* C17.  A waitUntil call whose predicate is never true does not resolve;  *)
(* while pending it has a timer set and less than timeout has passed; it   *)
(* rejects with the timeout error at a time t,                             *)
(* timeout <= t < timeout + checkInterval.                                 *)
(***************************************************************************)
C17_TimeoutWindow ==
  wait.cond.kind = "never" =>
    /\ wait.state # "resolved" /\ ~wait.threw
    /\ wait.state = "pending" => wait.timer /\ wait.now < wait.timeout
    /\ wait.state = "rejected" =>
         /\ wait.timeout <= wait.now /\ wait.now < wait.timeout + wait.interval
         /\ wait.error = MsgWaitTimeout(wait.timeout)
         /\ ~wait.timer

C17_Witness ==
  /\ wait.cond.kind = "never" /\ wait.state = "rejected"
  /\ wait.timeout % wait.interval # 0 /\ wait.timeout > wait.interval

(***************************************************************************)
(* C18.  A waitUntil call whose predicate is true from a time T < timeout  *)
(* on never rejects; while pending it has a timer set and less than T has  *)
(* passed; it resolves at a time t, T <= t < T + checkInterval; with       *)
(* T = 0 it resolves in the call, without a timer having been set.         *)
(***************************************************************************)
C18_ResolvesWithinInterval ==
  (wait.cond.kind = "trueFrom" /\ wait.cond.at < wait.timeout) =>
    /\ wait.state # "rejected" /\ ~wait.threw
    /\ wait.state = "pending" => wait.timer /\ wait.now < wait.cond.at
    /\ wait.state = "resolved" =>
         /\ wait.cond.at <= wait.now /\ wait.now < wait.cond.at + wait.interval
         /\ ~wait.timer
         /\ wait.cond.at = 0 => wait.now = 0 /\ wait.polls = 0

C18_Witness ==
  /\ wait.cond.kind = "trueFrom" /\ wait.cond.at < wait.timeout
  /\ wait.state = "resolved" /\ wait.now > wait.cond.at /\ wait.now >= wait.timeout

(***************************************************************************)
(* C21.  The surface the dragenter event is dispatched on is the first     *)
(* selector, in the order composer wrapper, message container, middle      *)
(* column, message input, that matches an element.  When no selector       *)
(* matches, the run is answered with success = FALSE and the error of      *)
(* findDropZone, and no event at all is dispatched; a run whose data       *)
(* converts either finds a surface or fails so.                            *)
(***************************************************************************)
SelectorIndex(zone) == CHOOSE i \in 1..Len(DropZoneSelectors) : DropZoneSelectors[i] = zone

C21_FirstCandidateFound ==
  \A r \in Runs :
    LET s == run[r]
        d == Dispatched(s, DragEvents)
    IN  /\ DropZoneSelectors =
             <<".composer-wrapper", ".input-message-container", ".middle-column",
               ".input-message-input">>
        /\ s.present # {} =>
             /\ Len(d) >= 1 /\ d[1].ev = "dragenter"
             /\ d[1].on \in s.present
             /\ \A j \in 1..(SelectorIndex(d[1].on) - 1) : DropZoneSelectors[j] \notin s.present
        /\ Did(s, "noDropZone") =>
             /\ s.pc = "done" /\ Len(s.answers) = 1
             /\ ~Answer(s).success /\ Answer(s).error = MsgNoDropZone
             /\ Dispatched(s, DragEvents \cup ActivationEvents) = <<>>
        /\ (Did(s, "uploadStarted") /\ s.data = "bytes") =>
             (Did(s, "noDropZone") <=> ~Did(s, "dragenter"))

C21_Witness ==
  \E r \in Runs :
    /\ run[r].present = {".input-message-input", ".middle-column", ".input-message-container"}
    /\ Did(run[r], "dragenter")

(***************************************************************************)
(* C23.  The button the activation is made on is visible and has the text  *)
(* "send".  When the send wait resolved at a poll made by its timer, the   *)
(* re-location reads the document the predicate read: the button located   *)
(* carries 'primary', and neither the not-found error nor an error of the  *)
(* search is reached.                                                      *)
(* When the send wait resolves at its first evaluation, the re-location    *)
(* runs in a later microtask and may read another document: then the       *)
(* fallbacks and the not-found error are reached.                          *)
(***************************************************************************)
Chosen(s) == IF s.pc = "click" THEN s.seen[s.located] ELSE s.target

C22_SendDisabledInFlight ==
  /\ (\E c \in Sends : popup.pc[c] # "idle") => popup.disabled
  /\ Cardinality({c \in Sends : popup.pc[c] # "idle"}) <= 1
  /\ Cardinality({c \in Sends : popup.pc[c] = "upload"}) <= 1

====
